---- MODULE Spec2Model ----
(***************************************************************************)
(* TerminalGroupService: the ordered list of terminal groups, the active   *)
(* group / active instance pointers and the change notifications, as a     *)
(* state machine.  Indices are 0-based as in the source; sequences are     *)
(* 1-based, so position i of the source is element i+1 here.               *)
(***************************************************************************)
EXTENDS Integers, Sequences, FiniteSets, TLC

\* ------------------------------------------------------------------ bounds
NumInst == 3
MaxGroups == 3

Instances == 1..NumInst
\* names of the TerminalGroup objects alive during one operation: the groups
\* of the array when the operation begins, by position, and one new object
GroupIds == 1..(MaxGroups + 1)
NoInst == 0
NoGroup == 0
Sides == {"before", "after"}

VARIABLES
    groups,               \* TerminalGroupService.groups: the TerminalGroup objects,
                          \* each [insts, active, visible]
    activeGroupIndex,     \* TerminalGroupService.activeGroupIndex
    activeInstanceIndex,  \* TerminalGroupService.activeInstanceIndex
    events,               \* notifications fired by the operation, in order
    threw,                \* the operation ended by throwing
    lastOp                \* the operation that just ran: name, arguments, the
                          \* state it started from (pre) and, for each group of
                          \* the array now, the object it is (ids)

\* UtilityProcess: one handle and the Electron process behind it
VARIABLES
    process,              \* UtilityProcess.process: NoProcess, or the forked process
    processPid,           \* UtilityProcess.processPid: NoPid stands for undefined
    configuration,        \* UtilityProcess.configuration: NoConfig stands for undefined
    didExit,              \* UtilityProcess.didExit
    canUseUtilityProcess, \* the imported flag: fixed for a run
    forks,                \* calls of ElectronUtilityProcess.fork so far
    ports,                \* calls of createMessagePorts so far
    listeners,            \* calls of registerListeners so far
    kills,                \* calls of process.kill() so far
    spawned,              \* the 'spawn' event has been delivered
    delivered,            \* the 'exit' and matching 'child-process-gone' events
                          \* delivered so far, in order
    onExit,               \* the events fired on onExit, in order
    wait,                 \* the waitForExit call in flight or last finished
    waits,                \* calls of waitForExit so far
    upOp                  \* the step that just ran, with the state it started from

upVars == <<process, processPid, configuration, didExit, canUseUtilityProcess, forks,
            ports, listeners, kills, spawned, delivered, onExit, wait, waits, upOp>>

\* BaseSecretStorageService with in-memory storage
VARIABLES
    storage,              \* the in-memory storage: full key -> stored string or Undefined
    resolved,             \* the promise resolvedStorageService has resolved
    calls                 \* the get/set/delete calls invoked so far, in order: each
                          \* [op, key, value, pc, result]

ssVars == <<storage, resolved, calls>>

tgVars == <<groups, activeGroupIndex, activeInstanceIndex, events, threw, lastOp>>

vars == <<groups, activeGroupIndex, activeInstanceIndex, events, threw, lastOp,
          process, processPid, configuration, didExit, canUseUtilityProcess, forks,
          ports, listeners, kills, spawned, delivered, onExit, wait, waits, upOp,
          storage, resolved, calls>>

\* --------------------------------------------------------- array helpers
Range(seq) == {seq[k] : k \in 1..Len(seq)}

Min(a, b) == IF a < b THEN a ELSE b

\* Array.prototype.indexOf / findIndex: 0-based position of the first x, or -1
IndexOf(seq, x) ==
    IF x \in Range(seq)
    THEN (CHOOSE k \in 1..Len(seq) : seq[k] = x /\ \A j \in 1..(k-1) : seq[j] # x) - 1
    ELSE -1

\* Array.prototype.splice(i, 1) for 0 <= i < length
RemoveAt(seq, i) == SubSeq(seq, 1, i) \o SubSeq(seq, i + 2, Len(seq))

\* Array.prototype.splice(i, 0, x) for i >= 0: a start past the end is clamped
InsertAt(seq, i, x) ==
    LET k == Min(i, Len(seq))
    IN SubSeq(seq, 1, k) \o <<x>> \o SubSeq(seq, k + 1, Len(seq))

\* ------------------------------------------------------ TerminalGroup object
EmptyGroup == [insts |-> <<>>, active |-> 0, visible |-> FALSE]

\* TerminalGroup constructor: wraps the seed instance when one is given
TerminalGroup_new(seed) ==
    IF seed = NoInst THEN EmptyGroup
    ELSE [insts |-> <<seed>>, active |-> 0, visible |-> FALSE]

\* TerminalGroup.activeInstance
TerminalGroup_activeInstance(g) ==
    IF g.active >= 0 /\ g.active < Len(g.insts) THEN g.insts[g.active + 1] ELSE NoInst

\* ------------------------------------------------------------ service state
\* The service state as one record, threaded through the nested calls:
\* groups is the array of object names, grp the objects.
RECURSIVE Positions(_)
Positions(n) == IF n = 0 THEN <<>> ELSE Append(Positions(n - 1), n)

Cur ==
    [groups |-> Positions(Len(groups)),
     grp |-> [g \in GroupIds |-> IF g <= Len(groups) THEN groups[g] ELSE EmptyGroup],
     activeGroupIndex |-> activeGroupIndex,
     activeInstanceIndex |-> activeInstanceIndex,
     events |-> <<>>, seen |-> <<>>, threw |-> FALSE]

\* the state an operation starts from, as lastOp.pre keeps it
Pre ==
    [groups |-> groups, activeGroupIndex |-> activeGroupIndex,
     activeInstanceIndex |-> activeInstanceIndex]

\* what a listener that reads the service finds: the fields as they are when
\* the emitter fires
Seen(s) ==
    [groups |-> s.groups, activeGroupIndex |-> s.activeGroupIndex,
     activeInstanceIndex |-> s.activeInstanceIndex]

Fire(s, type, arg) ==
    [s EXCEPT !.events = Append(@, [type |-> type, arg |-> arg]),
              !.seen = Append(@, Seen(s))]

\* get instances(): the concatenation of the groups' instances, in group order
RECURSIVE Concat(_, _)
Concat(gs, store) ==
    IF gs = <<>> THEN <<>> ELSE store[Head(gs)].insts \o Concat(Tail(gs), store)

instances(s) == Concat(s.groups, s.grp)

\* get activeGroup()
activeGroup(s) ==
    IF s.activeGroupIndex < 0 \/ s.activeGroupIndex >= Len(s.groups) THEN NoGroup
    ELSE s.groups[s.activeGroupIndex + 1]

\* get activeInstance()
activeInstance(s) ==
    IF activeGroup(s) = NoGroup THEN NoInst
    ELSE TerminalGroup_activeInstance(s.grp[activeGroup(s)])

\* getGroupForInstance: the first group holding the instance, or NoGroup
getGroupForInstance(s, inst) ==
    LET hits == {k \in 1..Len(s.groups) : inst \in Range(s.grp[s.groups[k]].insts)}
    IN IF hits = {} THEN NoGroup
       ELSE s.groups[CHOOSE k \in hits : \A j \in hits : k <= j]

\* groups.forEach((g, i) => g.setVisible(i === index))
SetVisibleOnly(s, index) ==
    [s EXCEPT !.grp = [g \in GroupIds |->
        IF g \in Range(s.groups)
        THEN [s.grp[g] EXCEPT !.visible = (IndexOf(s.groups, g) = index)]
        ELSE s.grp[g]]]

\* setActiveGroupByIndex with the bound check off by one (index > length)
setActiveGroupByIndex_offByOne(s, index) ==
    IF index > Len(s.groups) THEN s
    ELSE LET oldActiveGroup == activeGroup(s)
             s1 == [s EXCEPT !.activeGroupIndex = index]
         IN IF oldActiveGroup # activeGroup(s1)
            THEN LET s2 == SetVisibleOnly(s1, s1.activeGroupIndex)
                     s3 == Fire(s2, "activeGroup", activeGroup(s2))
                 IN Fire(s3, "activeInstance", activeInstance(s3))
            ELSE s1

\* setActiveGroupByIndex without the comparison of old and new active group
setActiveGroupByIndex_alwaysFires(s, index) ==
    IF index >= Len(s.groups) THEN s
    ELSE LET s1 == [s EXCEPT !.activeGroupIndex = index]
             s2 == SetVisibleOnly(s1, s1.activeGroupIndex)
             s3 == Fire(s2, "activeGroup", activeGroup(s2))
         IN Fire(s3, "activeInstance", activeInstance(s3))

setActiveGroupByIndex(s, index) ==
    IF index >= Len(s.groups) THEN s
    ELSE LET oldActiveGroup == activeGroup(s)
             s1 == [s EXCEPT !.activeGroupIndex = index]
         IN IF oldActiveGroup # activeGroup(s1)
            THEN LET s2 == SetVisibleOnly(s1, s1.activeGroupIndex)
                     s3 == Fire(s2, "activeGroup", activeGroup(s2))
                 IN Fire(s3, "activeInstance", activeInstance(s3))
            ELSE s1

\* _removeGroup without the adjustment of an index left past the end
_removeGroup_noAdjust(s, group) ==
    LET wasActiveGroup == (group = activeGroup(s))
        index == IndexOf(s.groups, group)
        s1 == IF index # -1
              THEN Fire([s EXCEPT !.groups = RemoveAt(@, index)], "groups", NoGroup)
              ELSE s
        n == Len(s1.groups)
        s2 == IF wasActiveGroup /\ n > 0
              THEN setActiveGroupByIndex(s1, IF index < n THEN index ELSE n - 1)
              ELSE s1
        s3 == Fire(s2, "instances", NoInst)
        s4 == IF n = 0 THEN Fire(s3, "activeInstance", NoInst) ELSE s3
        s5 == Fire(s4, "groups", NoGroup)
    IN IF wasActiveGroup THEN Fire(s5, "activeGroup", activeGroup(s5)) ELSE s5

\* _removeGroup that activates the removed group's position without clamping it
_removeGroup_noClamp(s, group) ==
    LET wasActiveGroup == (group = activeGroup(s))
        index == IndexOf(s.groups, group)
        s1 == IF index # -1
              THEN Fire([s EXCEPT !.groups = RemoveAt(@, index)], "groups", NoGroup)
              ELSE s
        n == Len(s1.groups)
        s2 == IF wasActiveGroup /\ n > 0
              THEN setActiveGroupByIndex(s1, index)
              ELSE IF s1.activeGroupIndex >= n
                   THEN setActiveGroupByIndex(s1, n - 1)
                   ELSE s1
        s3 == Fire(s2, "instances", NoInst)
        s4 == IF n = 0 THEN Fire(s3, "activeInstance", NoInst) ELSE s3
        s5 == Fire(s4, "groups", NoGroup)
    IN IF wasActiveGroup THEN Fire(s5, "activeGroup", activeGroup(s5)) ELSE s5

\* _removeGroup that leaves the group in the array
_removeGroup_noSplice(s, group) ==
    LET wasActiveGroup == (group = activeGroup(s))
        index == IndexOf(s.groups, group)
        s1 == IF index # -1 THEN Fire(s, "groups", NoGroup) ELSE s
        n == Len(s1.groups)
        s2 == IF wasActiveGroup /\ n > 0
              THEN setActiveGroupByIndex(s1, IF index < n THEN index ELSE n - 1)
              ELSE IF s1.activeGroupIndex >= n
                   THEN setActiveGroupByIndex(s1, n - 1)
                   ELSE s1
        s3 == Fire(s2, "instances", NoInst)
        s4 == IF n = 0 THEN Fire(s3, "activeInstance", NoInst) ELSE s3
        s5 == Fire(s4, "groups", NoGroup)
    IN IF wasActiveGroup THEN Fire(s5, "activeGroup", activeGroup(s5)) ELSE s5

_removeGroup(s, group) ==
    LET wasActiveGroup == (group = activeGroup(s))
        index == IndexOf(s.groups, group)
        s1 == IF index # -1
              THEN Fire([s EXCEPT !.groups = RemoveAt(@, index)], "groups", NoGroup)
              ELSE s
        n == Len(s1.groups)
        s2 == IF wasActiveGroup /\ n > 0
              THEN setActiveGroupByIndex(s1, IF index < n THEN index ELSE n - 1)
              ELSE IF s1.activeGroupIndex >= n
                   THEN setActiveGroupByIndex(s1, n - 1)
                   ELSE s1
        s3 == Fire(s2, "instances", NoInst)
        s4 == IF n = 0 THEN Fire(s3, "activeInstance", NoInst) ELSE s3
        s5 == Fire(s4, "groups", NoGroup)
    IN IF wasActiveGroup THEN Fire(s5, "activeGroup", activeGroup(s5)) ELSE s5

\* ------------------------------------------ TerminalGroup operations on s
\* TerminalGroup.setActiveInstanceByIndex
TerminalGroup_setActiveInstanceByIndex(s, g, index) ==
    IF index < 0 \/ index >= Len(s.grp[g].insts) THEN s
    ELSE LET changed == s.grp[g].active # index
             s1 == [s EXCEPT !.grp[g].active = index]
         IN IF changed
            THEN Fire(Fire(s1, "instances", NoInst), "activeInstance",
                      TerminalGroup_activeInstance(s1.grp[g]))
            ELSE s1

\* TerminalGroup.addInstance: appended, becomes the group's active instance
TerminalGroup_addInstance(s, g, inst) ==
    LET s1 == [s EXCEPT !.grp[g].insts = Append(@, inst),
                        !.grp[g].active = Len(s.grp[g].insts)]
    IN Fire(s1, "instances", NoInst)

\* TerminalGroup.removeInstance: a group left empty reports its disposal, which
\* the service answers with _removeGroup (constructor, onDidDisposeGroup)
TerminalGroup_removeInstance(s, g, inst) ==
    LET index == IndexOf(s.grp[g].insts, inst)
        wasActiveInstance == (inst = TerminalGroup_activeInstance(s.grp[g]))
        s1 == [s EXCEPT !.grp[g].insts = RemoveAt(@, index)]
        n == Len(s1.grp[g].insts)
        s2 == IF wasActiveInstance /\ n > 0
              THEN TerminalGroup_setActiveInstanceByIndex(
                       s1, g, IF index < n THEN index ELSE n - 1)
              ELSE IF index < s1.grp[g].active
                   THEN [s1 EXCEPT !.grp[g].active = @ - 1]
                   ELSE s1
    IN IF index = -1 THEN s
       ELSE IF n = 0
            THEN _removeGroup(s2, g)
            ELSE Fire(s2, "instances", NoInst)

\* TerminalGroup.moveInstance: remove, then insert at the given position
TerminalGroup_moveInstance(s, g, inst, index) ==
    LET sourceIndex == IndexOf(s.grp[g].insts, inst)
    IN IF sourceIndex = -1 THEN s
       ELSE Fire([s EXCEPT !.grp[g].insts =
                      InsertAt(RemoveAt(@, sourceIndex), index, inst)],
                 "instances", NoInst)

\* ------------------------------------------------------------- createGroup
\* a new TerminalGroup object: the name no group of this operation has
NewGroupId == Len(groups) + 1

\* createGroup that puts the new group at the head of groups
createGroup_atFront(s, seed) ==
    LET group == NewGroupId
        s1 == [s EXCEPT !.grp[group] = TerminalGroup_new(seed),
                        !.groups = <<group>> \o @]
        s2 == IF Len(s1.grp[group].insts) > 0 THEN Fire(s1, "instances", NoInst) ELSE s1
    IN Fire(s2, "groups", NoGroup)

createGroup(s, seed) ==
    LET group == NewGroupId
        s1 == [s EXCEPT !.grp[group] = TerminalGroup_new(seed),
                        !.groups = Append(@, group)]
        s2 == IF Len(s1.grp[group].insts) > 0 THEN Fire(s1, "instances", NoInst) ELSE s1
    IN Fire(s2, "groups", NoGroup)

\* ------------------------------------------------- the remaining operations
\* _getInstanceLocation: NoLoc stands for undefined
NoLoc == [found |-> FALSE]

RECURSIVE LocationFrom(_, _, _)
LocationFrom(s, index, currentGroupIndex) ==
    IF index >= 0 /\ currentGroupIndex < Len(s.groups)
    THEN LET group == s.groups[currentGroupIndex + 1]
             count == Len(s.grp[group].insts)
         IN IF index < count
            THEN [found |-> TRUE, group |-> group, groupIndex |-> currentGroupIndex,
                  instance |-> s.grp[group].insts[index + 1], instanceIndex |-> index]
            ELSE LocationFrom(s, index - count, currentGroupIndex + 1)
    ELSE NoLoc

\* the scan of _getInstanceLocation without "index -= count"
RECURSIVE LocationFrom_noSubtract(_, _, _)
LocationFrom_noSubtract(s, index, currentGroupIndex) ==
    IF index >= 0 /\ currentGroupIndex < Len(s.groups)
    THEN LET group == s.groups[currentGroupIndex + 1]
             count == Len(s.grp[group].insts)
         IN IF index < count
            THEN [found |-> TRUE, group |-> group, groupIndex |-> currentGroupIndex,
                  instance |-> s.grp[group].insts[index + 1], instanceIndex |-> index]
            ELSE LocationFrom_noSubtract(s, index, currentGroupIndex + 1)
    ELSE NoLoc

_getInstanceLocation_noSubtract(s, index) == LocationFrom_noSubtract(s, index, 0)

_getInstanceLocation(s, index) == LocationFrom(s, index, 0)

\* setActiveInstanceByIndex that stores the flat index in activeInstanceIndex
\* instead of the index inside the group
setActiveInstanceByIndex_flatIndex(s, index) ==
    LET oldActiveInstance == activeInstance(s)
        instanceLocation == _getInstanceLocation(s, index)
    IN IF ~instanceLocation.found THEN s
       ELSE IF oldActiveInstance = instanceLocation.instance THEN s
       ELSE LET s1 == [s EXCEPT !.activeInstanceIndex = index,
                                !.activeGroupIndex = instanceLocation.groupIndex]
                s3 == SetVisibleOnly(s1, instanceLocation.groupIndex)
            IN TerminalGroup_setActiveInstanceByIndex(
                   s3, instanceLocation.group, instanceLocation.instanceIndex)

setActiveInstanceByIndex(s, index) ==
    LET oldActiveInstance == activeInstance(s)
        instanceLocation == _getInstanceLocation(s, index)
    IN IF ~instanceLocation.found THEN s
       ELSE IF oldActiveInstance = instanceLocation.instance THEN s
       ELSE LET s1 == [s EXCEPT !.activeInstanceIndex = instanceLocation.instanceIndex,
                                !.activeGroupIndex = instanceLocation.groupIndex]
                \* activeGroupIndex was just assigned groupIndex: the guarded fire is dead
                s2 == IF s1.activeGroupIndex # instanceLocation.groupIndex
                      THEN Fire(s1, "activeGroup", activeGroup(s1))
                      ELSE s1
                s3 == SetVisibleOnly(s2, instanceLocation.groupIndex)
            IN TerminalGroup_setActiveInstanceByIndex(
                   s3, instanceLocation.group, s3.activeInstanceIndex)

\* _getIndexFromId: -1 stands for the thrown Error
_getIndexFromId(s, terminalId) == IndexOf(instances(s), terminalId)

\* setActiveInstance(instance); NoInst stands for an undefined argument, whose
\* instanceId cannot be read (TypeError)
\* setActiveInstance that hands a failed lookup on instead of throwing
setActiveInstance_noThrow(s, inst) ==
    IF inst = NoInst THEN [s EXCEPT !.threw = TRUE]
    ELSE setActiveInstanceByIndex(s, _getIndexFromId(s, inst))

setActiveInstance(s, inst) ==
    IF inst = NoInst \/ _getIndexFromId(s, inst) = -1
    THEN [s EXCEPT !.threw = TRUE]
    ELSE setActiveInstanceByIndex(s, _getIndexFromId(s, inst))

setActiveGroupToNext(s) ==
    IF Len(s.groups) <= 1 THEN s
    ELSE setActiveGroupByIndex(s,
             IF s.activeGroupIndex + 1 >= Len(s.groups) THEN 0 ELSE s.activeGroupIndex + 1)

setActiveGroupToPrevious(s) ==
    IF Len(s.groups) <= 1 THEN s
    ELSE setActiveGroupByIndex(s,
             IF s.activeGroupIndex - 1 < 0 THEN Len(s.groups) - 1 ELSE s.activeGroupIndex - 1)

\* moveGroup that exchanges the two groups instead of splicing
moveGroup_swap(s, source, target) ==
    LET sourceGroup == getGroupForInstance(s, source)
        targetGroup == getGroupForInstance(s, target)
    IN IF sourceGroup = NoGroup \/ targetGroup = NoGroup THEN s
       ELSE LET sourceGroupIndex == IndexOf(s.groups, sourceGroup)
                targetGroupIndex == IndexOf(s.groups, targetGroup)
            IN Fire([s EXCEPT !.groups =
                         [@ EXCEPT ![sourceGroupIndex + 1] = targetGroup,
                                   ![targetGroupIndex + 1] = sourceGroup]],
                    "instances", NoInst)

moveGroup(s, source, target) ==
    LET sourceGroup == getGroupForInstance(s, source)
        targetGroup == getGroupForInstance(s, target)
    IN IF sourceGroup = NoGroup \/ targetGroup = NoGroup THEN s
       ELSE LET sourceGroupIndex == IndexOf(s.groups, sourceGroup)
                targetGroupIndex == IndexOf(s.groups, targetGroup)
            IN Fire([s EXCEPT !.groups =
                         InsertAt(RemoveAt(@, sourceGroupIndex), targetGroupIndex, sourceGroup)],
                    "instances", NoInst)

\* moveInstance that adds the source to the target group without removing it
\* from its own
moveInstance_noRemove(s, source, target, side) ==
    LET sourceGroup == getGroupForInstance(s, source)
        targetGroup == getGroupForInstance(s, target)
    IN IF sourceGroup = NoGroup \/ targetGroup = NoGroup THEN s
       ELSE LET s1 == IF sourceGroup # targetGroup
                      THEN TerminalGroup_addInstance(s, targetGroup, source)
                      ELSE s
                index == IndexOf(s1.grp[targetGroup].insts, target)
                             + (IF side = "after" THEN 1 ELSE 0)
            IN TerminalGroup_moveInstance(s1, targetGroup, source, index)

moveInstance(s, source, target, side) ==
    LET sourceGroup == getGroupForInstance(s, source)
        targetGroup == getGroupForInstance(s, target)
    IN IF sourceGroup = NoGroup \/ targetGroup = NoGroup THEN s
       ELSE LET s1 == IF sourceGroup # targetGroup
                      THEN TerminalGroup_addInstance(
                               TerminalGroup_removeInstance(s, sourceGroup, source),
                               targetGroup, source)
                      ELSE s
                index == IndexOf(s1.grp[targetGroup].insts, target)
                             + (IF side = "after" THEN 1 ELSE 0)
            IN TerminalGroup_moveInstance(s1, targetGroup, source, index)

\* unsplitInstance that only returns early for an instance in no group
unsplitInstance_noSizeCheck(s, inst) ==
    LET oldGroup == getGroupForInstance(s, inst)
    IN IF oldGroup = NoGroup THEN s
       ELSE createGroup(TerminalGroup_removeInstance(s, oldGroup, inst), inst)

\* unsplitInstance that creates the new group without handing it the instance
unsplitInstance_noSeed(s, inst) ==
    LET oldGroup == getGroupForInstance(s, inst)
    IN IF oldGroup = NoGroup THEN s
       ELSE IF Len(s.grp[oldGroup].insts) < 2 THEN s
       ELSE createGroup(TerminalGroup_removeInstance(s, oldGroup, inst), NoInst)

unsplitInstance(s, inst) ==
    LET oldGroup == getGroupForInstance(s, inst)
    IN IF oldGroup = NoGroup THEN s
       ELSE IF Len(s.grp[oldGroup].insts) < 2 THEN s
       ELSE createGroup(TerminalGroup_removeInstance(s, oldGroup, inst), inst)

\* joinInstances, first loop: the first listed instance that is alone in its group
\* the first loop of joinInstances without its break: the last listed instance
\* that is alone in its group
RECURSIVE Candidate_last(_, _)
Candidate_last(s, list) ==
    IF list = <<>> THEN NoInst
    ELSE LET group == getGroupForInstance(s, list[Len(list)])
         IN IF group # NoGroup /\ Len(s.grp[group].insts) = 1
            THEN list[Len(list)]
            ELSE Candidate_last(s, SubSeq(list, 1, Len(list) - 1))

RECURSIVE Candidate(_, _)
Candidate(s, list) ==
    IF list = <<>> THEN NoInst
    ELSE LET group == getGroupForInstance(s, Head(list))
         IN IF group # NoGroup /\ Len(s.grp[group].insts) = 1
            THEN Head(list)
            ELSE Candidate(s, Tail(list))

\* joinInstances, second loop: move every other listed instance to the destination
RECURSIVE JoinLoop(_, _, _, _)
JoinLoop(s, list, candidateInstance, candidateGroup) ==
    IF list = <<>> THEN s
    ELSE LET instance == Head(list)
             oldGroup == getGroupForInstance(s, instance)
             s1 == IF instance = candidateInstance \/ oldGroup = NoGroup THEN s
                   ELSE TerminalGroup_addInstance(
                            TerminalGroup_removeInstance(s, oldGroup, instance),
                            candidateGroup, instance)
         IN JoinLoop(s1, Tail(list), candidateInstance, candidateGroup)

joinInstances(s, list) ==
    LET candidateInstance == Candidate(s, list)
        found == candidateInstance # NoInst
        s1 == IF found THEN s ELSE createGroup(s, NoInst)
        candidateGroup == IF found THEN getGroupForInstance(s, candidateInstance)
                          ELSE s1.groups[Len(s1.groups)]
        wasActiveGroup == (activeGroup(s1) = candidateGroup)
        s2 == JoinLoop(s1, list, candidateInstance, candidateGroup)
        s3 == setActiveInstance(s2, IF list = <<>> THEN NoInst ELSE Head(list))
        s4 == Fire(s3, "instances", NoInst)
    IN IF s3.threw THEN s3
       ELSE IF ~wasActiveGroup THEN Fire(s4, "activeGroup", activeGroup(s4)) ELSE s4

\* ============================================================ UtilityProcess
\* bounds on the calls and events of one run
MaxStarts == 2
MaxKills == 2
MaxWaits == 2
MaxDeliveries == 3

NoProcess == 0
NoPid == 0
NoConfig == 0
\* the configurations start is called with
Configs == 1..2
\* what getWindowById(configuration.responseWindowId) finds when start runs
WindowStates == {"missing", "destroyed", "contentsDestroyed", "live"}
ExitCodes == {0, 1}

\* the handle and what it has asked of Electron, as one record
UP ==
    [process |-> process, processPid |-> processPid, configuration |-> configuration,
     didExit |-> didExit, forks |-> forks, ports |-> ports, listeners |-> listeners,
     kills |-> kills, onExit |-> onExit, threw |-> FALSE]

\* validateCanStart: "throw", "undefined" or "window"
validateCanStart(u, window) ==
    IF ~canUseUtilityProcess THEN "throw"
    ELSE IF u.process # NoProcess THEN "undefined"
    ELSE IF window # "live" THEN "undefined"
    ELSE "window"

\* ElectronUtilityProcess.fork: a new process object, named by its number
fork(u) == [u EXCEPT !.process = u.forks + 1, !.forks = @ + 1]

registerListeners(u) == [u EXCEPT !.listeners = @ + 1]

createMessagePorts(u) == [u EXCEPT !.ports = @ + 1]

\* start that forks whether or not a process is attached
start_noAttachedCheck(u, config, window) ==
    IF ~canUseUtilityProcess THEN [u EXCEPT !.threw = TRUE]
    ELSE IF window # "live" THEN u
    ELSE createMessagePorts(registerListeners(fork([u EXCEPT !.configuration = config])))

\* start that does not look at the response window
start_noWindowCheck(u, config, window) ==
    IF ~canUseUtilityProcess THEN [u EXCEPT !.threw = TRUE]
    ELSE IF u.process # NoProcess THEN u
    ELSE createMessagePorts(registerListeners(fork([u EXCEPT !.configuration = config])))

start(u, config, window) ==
    LET responseWindow == validateCanStart(u, window)
    IN IF responseWindow = "throw" THEN [u EXCEPT !.threw = TRUE]
       ELSE IF responseWindow = "undefined" THEN u
       ELSE createMessagePorts(registerListeners(fork([u EXCEPT !.configuration = config])))

\* the 'spawn' listener: process.pid is the number of the process
onSpawn(u) == [u EXCEPT !.processPid = u.process]

\* handleDidExit without the didExit guard
handleDidExit_noGuard(u, code) ==
    [u EXCEPT !.didExit = TRUE,
              !.onExit = Append(@, [pid |-> u.processPid, code |-> code,
                                    signal |-> "unknown"])]

\* handleDidExit that clears the flag on a second delivery
handleDidExit_toggle(u, code) ==
    IF u.didExit THEN [u EXCEPT !.didExit = FALSE]
    ELSE [u EXCEPT !.didExit = TRUE,
                   !.onExit = Append(@, [pid |-> u.processPid, code |-> code,
                                         signal |-> "unknown"])]

handleDidExit(u, code) ==
    IF u.didExit THEN u
    ELSE [u EXCEPT !.didExit = TRUE,
                   !.onExit = Append(@, [pid |-> u.processPid, code |-> code,
                                         signal |-> "unknown"])]

kill(u) ==
    IF u.process = NoProcess THEN u
    ELSE [u EXCEPT !.kills = @ + 1]

\* waitForExit up to its await: TRUE when the call returns without waiting
waitForExit_returnsAtOnce_noExitCheck(u) == u.process = NoProcess

waitForExit_returnsAtOnce(u) == u.process = NoProcess \/ u.didExit

\* the rest of waitForExit without the kill
waitForExit_resume_noKill(u) == u

\* waitForExit after the await
waitForExit_resume(u) ==
    IF ~u.didExit THEN [u EXCEPT !.kills = @ + 1] ELSE u

NoWait == [status |-> "none", kills |-> 0, by |-> "none"]

UPInit ==
    /\ process = NoProcess
    /\ processPid = NoPid
    /\ configuration = NoConfig
    /\ didExit = FALSE
    /\ canUseUtilityProcess \in BOOLEAN
    /\ forks = 0
    /\ ports = 0
    /\ listeners = 0
    /\ kills = 0
    /\ spawned = FALSE
    /\ delivered = <<>>
    /\ onExit = <<>>
    /\ wait = NoWait
    /\ waits = 0
    /\ upOp = [name |-> "none"]

\* ================================================== BaseSecretStorageService
MaxCalls == 3
MaxValue == 2

Keys == {"k1", "k2"}
\* strings, by number: EmptyString is '' and Undefined is undefined
EmptyString == 0
Undefined == -1
Values == EmptyString..MaxValue

\* getKey: the storage key of a secret
getKey(key) == <<"secret://", key>>

FullKeys == {getKey(key) : key \in Keys}

\* !encrypted
Falsy(x) == x = Undefined \/ x = EmptyString

\* the body of get once the storage is resolved, in-memory: no decryption
get(st, key) ==
    LET encrypted == st[getKey(key)]
    IN IF Falsy(encrypted) THEN Undefined ELSE encrypted

\* the body of set, in-memory: no encryption
set(st, key, value) == [st EXCEPT ![getKey(key)] = value]

\* the body of delete
delete(st, key) == [st EXCEPT ![getKey(key)] = Undefined]

\* _sequencer.queue(key, task): the task of call i starts when every earlier
\* call of the same key has finished
MayStart(i) ==
    /\ calls[i].pc = "queued"
    /\ \A j \in 1..(i - 1) : calls[j].key = calls[i].key => calls[j].pc = "done"

SSInit ==
    /\ storage = [fullKey \in FullKeys |-> Undefined]
    /\ resolved = FALSE
    /\ calls = <<>>

\* -------------------------------------------------------------- the machine
Idle == [name |-> "idle"]

TGInit ==
    /\ groups = <<>>
    /\ activeGroupIndex = -1
    /\ activeInstanceIndex = -1
    /\ events = <<>>
    /\ threw = FALSE
    /\ lastOp = Idle

\* the service alone: the utility process handle and the secret storage stay
\* as constructed
Init ==
    /\ TGInit
    /\ UPInit /\ canUseUtilityProcess
    /\ SSInit

RECURSIVE Objects(_, _)
Objects(ids, store) ==
    IF ids = <<>> THEN <<>> ELSE <<store[Head(ids)]>> \o Objects(Tail(ids), store)

\* one operation runs from start to end on the state at rest (lastOp = Idle)
Commit(s, op) ==
    \E r \in {s} :
        /\ groups' = Objects(r.groups, r.grp)
        /\ activeGroupIndex' = r.activeGroupIndex
        /\ activeInstanceIndex' = r.activeInstanceIndex
        /\ events' = r.events
        /\ threw' = r.threw
        /\ lastOp' = op @@ [pre |-> Pre, ids |-> r.groups, seen |-> r.seen]
        /\ UNCHANGED <<upVars, ssVars>>

\* Instance ids are opaque: the service only compares them.  At rest the
\* instances in groups are named by their flat position, 1..n in the order of
\* get instances(), and the instances in no group are n+1..NumInst.
RECURSIVE Renamed(_, _)
Renamed(gs, before) ==
    IF gs = <<>> THEN <<>>
    ELSE << [Head(gs) EXCEPT
                !.insts = [k \in 1..Len(Head(gs).insts) |-> before + k]] >>
         \o Renamed(Tail(gs), before + Len(Head(gs).insts))

\* the operation has returned and its listeners have run
Return ==
    /\ lastOp # Idle
    /\ lastOp' = Idle
    /\ events' = <<>>
    /\ threw' = FALSE
    /\ groups' = Renamed(groups, 0)
    /\ UNCHANGED <<activeGroupIndex, activeInstanceIndex, upVars, ssVars>>

\* instances that are in no group: fresh or detached terminals
Outside == Instances \ Range(instances(Cur))

CanCreate == Len(groups) < MaxGroups

CreateGroup ==
    /\ lastOp = Idle
    /\ CanCreate
    /\ \E seed \in Outside \cup {NoInst} :
          Commit(createGroup(Cur, seed), [name |-> "createGroup", seed |-> seed])

\* a terminal instance is disposed: its group removes it
DisposeInstance ==
    /\ lastOp = Idle
    /\ \E inst \in Range(instances(Cur)) :
        Commit(TerminalGroup_removeInstance(Cur, getGroupForInstance(Cur, inst), inst),
               [name |-> "disposeInstance", instance |-> inst])

SetActiveGroupByIndex ==
    /\ lastOp = Idle
    /\ \E i \in (-2)..(Len(groups) + 1) :
        Commit(setActiveGroupByIndex(Cur, i), [name |-> "setActiveGroupByIndex", index |-> i])

SetActiveInstanceByIndex ==
    /\ lastOp = Idle
    /\ \E i \in (-1)..(Len(instances(Cur)) + 1) :
        Commit(setActiveInstanceByIndex(Cur, i),
               [name |-> "setActiveInstanceByIndex", index |-> i])

SetActiveInstance ==
    /\ lastOp = Idle
    /\ \E inst \in Instances :
        Commit(setActiveInstance(Cur, inst), [name |-> "setActiveInstance", instance |-> inst])

SetActiveGroupToNext ==
    /\ lastOp = Idle
    /\ Commit(setActiveGroupToNext(Cur), [name |-> "setActiveGroupToNext"])

SetActiveGroupToPrevious ==
    /\ lastOp = Idle
    /\ Commit(setActiveGroupToPrevious(Cur), [name |-> "setActiveGroupToPrevious"])

MoveGroup ==
    /\ lastOp = Idle
    /\ \E source \in Instances, target \in Instances :
          Commit(moveGroup(Cur, source, target),
                 [name |-> "moveGroup", source |-> source, target |-> target])

MoveInstance ==
    /\ lastOp = Idle
    /\ \E source \in Instances, target \in Instances, side \in Sides :
          /\ source # target
          /\ Commit(moveInstance(Cur, source, target, side),
                    [name |-> "moveInstance", source |-> source, target |-> target,
                     side |-> side])

\* unsplitInstance creates a group when the instance is split
UnsplitInstance ==
    /\ lastOp = Idle
    /\ \E inst \in Instances :
          /\ unsplitInstance(Cur, inst).groups # Cur.groups => CanCreate
          /\ Commit(unsplitInstance(Cur, inst),
                    [name |-> "unsplitInstance", instance |-> inst])

\* the lists joinInstances is called with: distinct instances, possibly none
JoinLists ==
    {list \in UNION {[1..n -> Instances] : n \in 0..NumInst} :
        \A i, j \in 1..Len(list) : i # j => list[i] # list[j]}

\* joinInstances creates a group when no listed instance is alone in its group
JoinInstances ==
    /\ lastOp = Idle
    /\ \E list \in JoinLists :
          /\ Candidate(Cur, list) = NoInst => CanCreate
          /\ Commit(joinInstances(Cur, list), [name |-> "joinInstances", list |-> list])

Next ==
    \/ CreateGroup
    \/ DisposeInstance
    \/ SetActiveGroupByIndex
    \/ SetActiveInstanceByIndex
    \/ SetActiveInstance
    \/ SetActiveGroupToNext
    \/ SetActiveGroupToPrevious
    \/ MoveGroup
    \/ MoveInstance
    \/ UnsplitInstance
    \/ JoinInstances
    \/ Return

Spec == Init /\ [][Next]_vars

\* ------------------------------------------------------- reading the history
Ran(name) == lastOp.name = name

Fired(type) == \E k \in 1..Len(events) : events[k].type = type

FiredWith(type, arg) == \E k \in 1..Len(events) : events[k] = [type |-> type, arg |-> arg]

\* the position of the active group of a snapshot, -1 when no group is active
ActivePos(snap) ==
    IF snap.activeGroupIndex >= 0 /\ snap.activeGroupIndex < Len(snap.groups)
    THEN snap.activeGroupIndex ELSE -1

InRange(snap) ==
    snap.activeGroupIndex >= -1 /\ snap.activeGroupIndex < Len(snap.groups)

\* the instances held by the groups of a snapshot
RECURSIVE Members(_)
Members(gs) == IF gs = <<>> THEN {} ELSE Range(Head(gs).insts) \cup Members(Tail(gs))

RECURSIVE CountBefore(_, _)
CountBefore(gs, g) == IF g = 0 THEN 0 ELSE Len(gs[g].insts) + CountBefore(gs, g - 1)

\* the operation removed exactly one group through _removeGroup and touched
\* the active group pointer nowhere else
RemovedOne ==
    /\ lastOp.name \in {"disposeInstance", "moveInstance"}
    /\ Len(groups) = Len(lastOp.pre.groups) - 1

RemovedIndex ==
    (CHOOSE k \in 1..Len(lastOp.pre.groups) : k \notin Range(lastOp.ids)) - 1

RemovedWasActive == lastOp.pre.activeGroupIndex = RemovedIndex

VisiblePositions == {k \in 1..Len(groups) : groups[k].visible}

\* ---------------------------------------------------------------------- C1
\* C1 as stated: after createGroup or a group removal, activeGroupIndex is -1
\* iff groups is empty, and otherwise a valid index.
C1_Original ==
    lastOp.name \in {"createGroup", "disposeInstance"} /\ InRange(lastOp.pre)
        => /\ (activeGroupIndex = -1) <=> (groups = <<>>)
           /\ groups # <<>> => (0 <= activeGroupIndex /\ activeGroupIndex < Len(groups))

\* C1 amended: after createGroup or a group removal, activeGroupIndex is -1 when
\* groups is empty and otherwise lies in -1..groups.length-1; createGroup leaves
\* it as it was, so it stays -1 while groups is non-empty until a group is activated.
C1_ActiveIndexRange ==
    lastOp.name \in {"createGroup", "disposeInstance"} /\ InRange(lastOp.pre)
        => /\ groups = <<>> => activeGroupIndex = -1
           /\ -1 <= activeGroupIndex /\ activeGroupIndex < Len(groups)
           /\ Ran("createGroup") => activeGroupIndex = lastOp.pre.activeGroupIndex

C1_Witness ==
    /\ Ran("disposeInstance")
    /\ Len(lastOp.pre.groups) = 3
    /\ Len(groups) = 2
    /\ lastOp.pre.activeGroupIndex = 2
    /\ activeGroupIndex = 1

\* ---------------------------------------------------------------------- C2
\* C2: for every flat index i, _getInstanceLocation(i) resolves 0 <= i < total to
\* the (groupIndex, instanceIndex) with (instances before the group) +
\* instanceIndex = i and the i-th instance of the concatenation, and resolves
\* any other i to not-found.
C2_InstanceLocation ==
    LET cur == Cur
        all == instances(cur)
    IN \A i \in (-2)..(Len(all) + 1) :
           LET loc == _getInstanceLocation(cur, i)
           IN IF 0 <= i /\ i < Len(all)
              THEN /\ loc.found
                   /\ loc.groupIndex >= 0 /\ loc.groupIndex < Len(groups)
                   /\ loc.instanceIndex >= 0
                   /\ loc.instanceIndex < Len(groups[loc.groupIndex + 1].insts)
                   /\ CountBefore(groups, loc.groupIndex) + loc.instanceIndex = i
                   /\ loc.instance = all[i + 1]
                   /\ loc.instance = groups[loc.groupIndex + 1].insts[loc.instanceIndex + 1]
              ELSE loc = NoLoc

C2_Witness ==
    /\ Ran("setActiveInstanceByIndex")
    /\ lastOp.index = 2
    /\ Len(groups) = 3
    /\ groups[1].insts = <<>>
    /\ Len(groups[2].insts) = 1
    /\ activeGroupIndex = 2
    /\ activeInstanceIndex = 1

C4_Original ==
    lastOp.name \in {"createGroup", "moveInstance", "unsplitInstance",
                     "joinInstances", "disposeInstance"}
        => \A k \in 1..Len(groups) : groups[k].insts # <<>>

\* C4 amended: a group of groups has zero instances only if it was created
\* empty (by createGroup without a seed, or by joinInstances creating a
\* destination group that no listed instance could be moved to) and has
\* received no instance since; a group whose last instance is removed is
\* removed from groups.
C4_NoGroupLeftEmpty ==
    lastOp # Idle =>
        \A k \in 1..Len(groups) :
            groups[k].insts = <<>> =>
                \/ /\ lastOp.ids[k] <= Len(lastOp.pre.groups)
                   /\ lastOp.pre.groups[lastOp.ids[k]].insts = <<>>
                \/ /\ lastOp.ids[k] = Len(lastOp.pre.groups) + 1
                   /\ \/ Ran("createGroup") /\ lastOp.seed = NoInst
                      \/ /\ Ran("joinInstances")
                         /\ Range(lastOp.list) \cap Members(lastOp.pre.groups) = {}

C4_Witness ==
    /\ Ran("moveInstance")
    /\ Len(groups) = Len(lastOp.pre.groups) - 1
    /\ \A k \in 1..Len(groups) : groups[k].insts # <<>>

\* ---------------------------------------------------------------------- C5
\* C5: whenever an operation on the active pointers, a move, a join or a
\* removal leaves a group active, activeInstanceIndex is the position of the
\* service's active instance inside that group.
C5_ActivePointersConsistent ==
    (/\ lastOp.name \in {"setActiveGroupByIndex", "setActiveInstanceByIndex",
                         "setActiveInstance", "setActiveGroupToNext",
                         "setActiveGroupToPrevious", "moveGroup", "moveInstance",
                         "joinInstances", "disposeInstance"}
     /\ ActivePos(Pre) # -1
     /\ activeInstance(Cur) # NoInst)
        => /\ activeInstanceIndex >= 0
           /\ activeInstanceIndex < Len(groups[activeGroupIndex + 1].insts)
           /\ groups[activeGroupIndex + 1].insts[activeInstanceIndex + 1]
                  = activeInstance(Cur)

\* ---------------------------------------------------------------------- C6
\* C6: when the removed group was the active group and a group remains, the new
\* activeGroupIndex is the removed group's position if that is still a valid
\* index and the new last index otherwise; it is never out of range.
C6_ActiveAfterRemoval ==
    RemovedOne /\ RemovedWasActive /\ groups # <<>>
        => /\ activeGroupIndex =
                  (IF RemovedIndex < Len(groups) THEN RemovedIndex ELSE Len(groups) - 1)
           /\ 0 <= activeGroupIndex /\ activeGroupIndex < Len(groups)

C6_Witness ==
    /\ RemovedOne /\ RemovedWasActive
    /\ Len(groups) = 2
    /\ RemovedIndex = 2
    /\ activeGroupIndex = 1

\* ---------------------------------------------------------------------- C7
\* C7: when a group removal leaves groups empty, activeGroupIndex and
\* activeInstanceIndex are both -1 and active-instance-changed fired with undefined.
C7_PointersResetWhenEmpty ==
    RemovedOne /\ groups = <<>> /\ InRange(lastOp.pre)
        => /\ activeGroupIndex = -1
           /\ activeInstanceIndex = -1
           /\ FiredWith("activeInstance", NoInst)

\* ---------------------------------------------------------------------- C8
\* C8: every group removal fires groups-changed, and fires active-group-changed
\* only if the removed group was the active group.
C8_RemovalNotifications ==
    RemovedOne
        => /\ Fired("groups")
           /\ Fired("activeGroup") => RemovedWasActive

\* ---------------------------------------------------------------------- C9
\* the operation changed nothing and fired nothing
NoOp ==
    /\ Pre = lastOp.pre
    /\ lastOp.ids = Positions(Len(groups))
    /\ events = <<>>
    /\ ~threw

\* C9 as stated: setActiveGroupByIndex(i) is a no-op for every i < 0 and every
\* i >= groups.length.
C9_Original ==
    Ran("setActiveGroupByIndex")
    /\ (lastOp.index < 0 \/ lastOp.index >= Len(lastOp.pre.groups))
        => NoOp

\* C9 amended: setActiveGroupByIndex(i) is a no-op for every i >= groups.length;
\* for i < 0 it is not: it stores i in activeGroupIndex and, if a group was
\* active, hides every group and fires active-group-changed and
\* active-instance-changed, both with undefined.
C9_NoOpPastTheEnd ==
    Ran("setActiveGroupByIndex") =>
        /\ lastOp.index >= Len(lastOp.pre.groups) => NoOp
        /\ lastOp.index < 0 =>
               /\ activeGroupIndex = lastOp.index
               /\ ActivePos(lastOp.pre) # -1 =>
                      /\ VisiblePositions = {}
                      /\ events = << [type |-> "activeGroup", arg |-> NoGroup],
                                     [type |-> "activeInstance", arg |-> NoInst] >>

C9_Witness ==
    /\ Ran("setActiveGroupByIndex")
    /\ lastOp.index = Len(groups)
    /\ Len(groups) = 2
    /\ activeGroupIndex = 1

\* --------------------------------------------------------------------- C10
\* the active group after the operation is another one than before
ActiveGroupChanged == ActivePos(Pre) # ActivePos(lastOp.pre)

\* C10 as stated: setActiveGroupByIndex fires only when the active group
\* changes, a repeated call with the same in-range index changes and fires
\* nothing, and a call that changes the active group leaves exactly one group
\* visible, the one at activeGroupIndex.
C10_Original ==
    Ran("setActiveGroupByIndex") =>
        /\ events # <<>> => ActiveGroupChanged
        /\ (0 <= lastOp.index /\ lastOp.index < Len(groups))
               => setActiveGroupByIndex(Cur, lastOp.index) = Cur
        /\ ActiveGroupChanged => VisiblePositions = {activeGroupIndex + 1}

\* C10 amended: as stated, but a call that changes the active group leaves
\* exactly one group visible only for 0 <= i < groups.length; a negative i
\* that changes the active group leaves no group active and no group visible.
C10_FiresOnlyOnChange ==
    Ran("setActiveGroupByIndex") =>
        /\ events # <<>> =>
               /\ ActiveGroupChanged
               /\ Fired("activeGroup") /\ Fired("activeInstance")
        /\ (0 <= lastOp.index /\ lastOp.index < Len(groups))
               => setActiveGroupByIndex(Cur, lastOp.index) = Cur
        /\ ActiveGroupChanged =>
               IF lastOp.index >= 0
               THEN VisiblePositions = {activeGroupIndex + 1}
               ELSE VisiblePositions = {} /\ ActivePos(Pre) = -1

C10_Witness ==
    /\ Ran("setActiveGroupByIndex")
    /\ ActiveGroupChanged
    /\ lastOp.index = 1
    /\ Len(groups) = 3
    /\ lastOp.pre.groups[1].visible
    /\ VisiblePositions = {2}


\* --------------------------------------------------------------------- C11
\* the number of instances in all groups of a sequence of groups
FlatCount(gs) == CountBefore(gs, Len(gs))

\* the group position (from 0) and the position inside the group (from 0) of
\* the instance at flat position i, 0 <= i < FlatCount(gs)
FlatAt(gs, i) ==
    CHOOSE loc \in (0..(Len(gs) - 1)) \X (0..NumInst) :
        /\ loc[2] < Len(gs[loc[1] + 1].insts)
        /\ CountBefore(gs, loc[1]) + loc[2] = i

\* the active instance of the service in a snapshot
ActiveInstanceOf(snap) ==
    IF ActivePos(snap) = -1 THEN NoInst
    ELSE TerminalGroup_activeInstance(snap.groups[ActivePos(snap) + 1])

\* the instances of every group, in order
Membership(gs) == [k \in 1..Len(gs) |-> gs[k].insts]

\* C11: setActiveInstanceByIndex(i) changes nothing when i resolves to no
\* instance or to the instance that is already active; otherwise it sets
\* activeGroupIndex and activeInstanceIndex to the resolved group and the
\* position inside it, makes exactly that group visible and makes the resolved
\* instance the active instance of its group.
C11_SetActiveInstanceByIndex ==
    Ran("setActiveInstanceByIndex") =>
        LET pre == lastOp.pre
            i == lastOp.index
        IN IF i < 0 \/ i >= FlatCount(pre.groups)
           THEN NoOp
           ELSE LET loc == FlatAt(pre.groups, i)
                    inst == pre.groups[loc[1] + 1].insts[loc[2] + 1]
                IN IF inst = ActiveInstanceOf(pre)
                   THEN NoOp
                   ELSE /\ activeGroupIndex = loc[1]
                        /\ activeInstanceIndex = loc[2]
                        /\ VisiblePositions = {loc[1] + 1}
                        /\ TerminalGroup_activeInstance(groups[loc[1] + 1]) = inst
                        /\ Membership(groups) = Membership(pre.groups)
                        /\ ~threw

C11_Witness ==
    /\ Ran("setActiveInstanceByIndex")
    /\ lastOp.index = 2
    /\ Membership(groups) = << <<1>>, <<2, 3>> >>
    /\ lastOp.pre.activeGroupIndex = 0
    /\ lastOp.pre.groups[2].active = 0
    /\ activeGroupIndex = 1
    /\ activeInstanceIndex = 1
    /\ VisiblePositions = {2}
    /\ groups[2].active = 1

\* --------------------------------------------------------------------- C12
\* C12: createGroup appends exactly one new group at the tail of groups, the
\* group it returns, and leaves the existing groups at their positions; it
\* always fires groups-changed and fires instances-changed iff the new group
\* is non-empty.
C12_CreateGroupAppends ==
    Ran("createGroup") =>
        LET n == Len(lastOp.pre.groups)
        IN /\ Len(groups) = n + 1
           /\ SubSeq(groups, 1, n) = lastOp.pre.groups
           /\ SubSeq(lastOp.ids, 1, n) = Positions(n)
           /\ lastOp.ids[n + 1] = n + 1
           /\ groups[n + 1].insts = (IF lastOp.seed = NoInst THEN <<>> ELSE <<lastOp.seed>>)
           /\ Fired("groups")
           /\ Fired("instances") <=> groups[n + 1].insts # <<>>
           /\ \A k \in 1..Len(events) : events[k].type \in {"groups", "instances"}
           /\ ~threw

C12_Witness ==
    /\ Ran("createGroup")
    /\ lastOp.seed # NoInst
    /\ Len(lastOp.pre.groups) = 2
    /\ Len(groups) = 3
    /\ groups[3].insts = <<lastOp.seed>>
    /\ events = << [type |-> "instances", arg |-> NoInst], [type |-> "groups", arg |-> NoGroup] >>

\* --------------------------------------------------------------------- C13
\* the position (from 1) in gs of the group holding inst, 0 when none does
GroupOf(gs, inst) ==
    IF \E k \in 1..Len(gs) : inst \in Range(gs[k].insts)
    THEN CHOOSE k \in 1..Len(gs) : inst \in Range(gs[k].insts)
    ELSE 0

\* the number of instances of the group holding inst, 0 when none does
GroupSizeOf(gs, inst) ==
    IF GroupOf(gs, inst) = 0 THEN 0 ELSE Len(gs[GroupOf(gs, inst)].insts)

\* C13: unsplitInstance of an instance that is alone in its group is a no-op:
\* groups, their members, the active pointers are unchanged and nothing fires.
C13_UnsplitSingleIsNoOp ==
    Ran("unsplitInstance") /\ GroupSizeOf(lastOp.pre.groups, lastOp.instance) = 1
        => NoOp

C13_Witness ==
    /\ Ran("unsplitInstance")
    /\ Membership(lastOp.pre.groups) = << <<1, 2>>, <<3>> >>
    /\ lastOp.instance = 3
    /\ Membership(groups) = << <<1, 2>>, <<3>> >>
    /\ activeGroupIndex = 1
    /\ events = <<>>

\* --------------------------------------------------------------------- C14
\* seq without its element x
Without(seq, x) == IF IndexOf(seq, x) = -1 THEN seq ELSE RemoveAt(seq, IndexOf(seq, x))

\* C14: unsplitInstance of an instance whose group has two or more instances
\* removes it from that group, which keeps its other instances in order, and
\* appends one new group holding exactly that instance; the set of all
\* instances is unchanged.
C14_UnsplitMovesToNewGroup ==
    Ran("unsplitInstance") /\ GroupSizeOf(lastOp.pre.groups, lastOp.instance) >= 2
        => LET n == Len(lastOp.pre.groups)
           IN /\ Len(groups) = n + 1
              /\ SubSeq(lastOp.ids, 1, n) = Positions(n)
              /\ lastOp.ids[n + 1] = n + 1
              /\ groups[n + 1].insts = <<lastOp.instance>>
              /\ \A k \in 1..n :
                     groups[k].insts = Without(lastOp.pre.groups[k].insts, lastOp.instance)
              /\ Members(groups) = Members(lastOp.pre.groups)
              /\ FlatCount(groups) = FlatCount(lastOp.pre.groups)
              /\ ~threw

C14_Witness ==
    /\ Ran("unsplitInstance")
    /\ Membership(lastOp.pre.groups) = << <<1, 2, 3>> >>
    /\ lastOp.instance = 2
    /\ Membership(groups) = << <<1, 3>>, <<2>> >>

\* --------------------------------------------------------------------- C15
\* the positions of list whose instance is alone in its group
AlonePositions(gs, list) == {k \in 1..Len(list) : GroupSizeOf(gs, list[k]) = 1}

\* the first listed instance that is alone in its group
FirstAlone(gs, list) ==
    list[CHOOSE k \in AlonePositions(gs, list) : \A j \in AlonePositions(gs, list) : k <= j]

\* C15: joinInstances of instances that are all in groups, one of them at
\* least alone in its group, ends with all of them in one group, the group of
\* the first listed instance that was alone in its group; no group is
\* created, and the first listed instance is the active instance of the service.
C15_JoinAdoptsSingleGroup ==
    (/\ Ran("joinInstances")
     /\ Range(lastOp.list) \subseteq Members(lastOp.pre.groups)
     /\ AlonePositions(lastOp.pre.groups, lastOp.list) # {})
        => LET candidate == FirstAlone(lastOp.pre.groups, lastOp.list)
               dest == GroupOf(lastOp.pre.groups, candidate)
               p == GroupOf(groups, candidate)
           IN /\ ~threw
              /\ p # 0
              /\ lastOp.ids[p] = dest
              /\ groups[p].insts = <<candidate>> \o Without(lastOp.list, candidate)
              /\ \A k \in 1..Len(groups) : lastOp.ids[k] <= Len(lastOp.pre.groups)
              /\ Members(groups) = Members(lastOp.pre.groups)
              /\ FlatCount(groups) = FlatCount(lastOp.pre.groups)
              /\ ActiveInstanceOf(Pre) = lastOp.list[1]

C15_Witness ==
    /\ Ran("joinInstances")
    /\ Membership(lastOp.pre.groups) = << <<1, 2>>, <<3>> >>
    /\ lastOp.list = <<1, 3, 2>>
    /\ Membership(groups) = << <<3, 1, 2>> >>
    /\ lastOp.ids = <<2>>
    /\ ActiveInstanceOf(Pre) = 1

\* --------------------------------------------------------------------- C16
\* the group object that is active in the state before the operation, named
\* by its position then; NoGroup when none is active
ActiveObjectBefore ==
    IF ActivePos(lastOp.pre) = -1 THEN NoGroup ELSE ActivePos(lastOp.pre) + 1

\* the group object that is active now, by the same names
ActiveObjectNow ==
    IF ActivePos(Pre) = -1 THEN NoGroup ELSE lastOp.ids[ActivePos(Pre) + 1]

\* C16: joinInstances always fires instances-changed, and fires
\* active-group-changed only if the group that is active after the call is
\* another one than the group that was active before it.
C16_JoinNotifications ==
    Ran("joinInstances") =>
        /\ Fired("instances")
        /\ Fired("activeGroup") => ActiveObjectNow # ActiveObjectBefore

\* --------------------------------------------------------------------- C17
\* inst is in a group of the state before the operation
Resolvable(inst) == inst \in Members(lastOp.pre.groups)

\* C17: moveGroup, moveInstance, unsplitInstance and joinInstances return
\* without throwing when an instance is in no group; the moves and unsplit
\* then change nothing, and for joinInstances this covers a first instance in
\* no group and the empty list.
C17_BenignAbsence ==
    /\ (/\ lastOp.name \in {"moveGroup", "moveInstance"}
        /\ ~(Resolvable(lastOp.source) /\ Resolvable(lastOp.target)))
           => NoOp
    /\ (Ran("unsplitInstance") /\ ~Resolvable(lastOp.instance)) => NoOp
    /\ (/\ Ran("joinInstances")
        /\ \/ lastOp.list = <<>>
           \/ \E k \in 1..Len(lastOp.list) : ~Resolvable(lastOp.list[k]))
           => ~threw

\* --------------------------------------------------------------------- C18
\* C18: moveGroup(source, target) with both instances in groups puts the
\* source's group at the index the target's group had before the call; the
\* other groups keep their relative order and every group is still there,
\* with its instances untouched.
C18_MoveGroupSplices ==
    (Ran("moveGroup") /\ Resolvable(lastOp.source) /\ Resolvable(lastOp.target))
        => LET n == Len(lastOp.pre.groups)
               sourceGroup == GroupOf(lastOp.pre.groups, lastOp.source)
               targetGroup == GroupOf(lastOp.pre.groups, lastOp.target)
           IN /\ Len(groups) = n
              /\ lastOp.ids[targetGroup] = sourceGroup
              /\ RemoveAt(lastOp.ids, targetGroup - 1)
                     = RemoveAt(Positions(n), sourceGroup - 1)
              /\ \A k \in 1..n : groups[k] = lastOp.pre.groups[lastOp.ids[k]]
              /\ ~threw

C18_Witness ==
    /\ Ran("moveGroup")
    /\ Membership(lastOp.pre.groups) = << <<1>>, <<2>>, <<3>> >>
    /\ lastOp.source = 1
    /\ lastOp.target = 3
    /\ lastOp.ids = <<2, 3, 1>>
    /\ Membership(groups) = << <<2>>, <<3>>, <<1>> >>

\* --------------------------------------------------------------------- C19
\* C19: moveInstance(source, target, side) with both instances in groups ends
\* with source in target's group, immediately before target for 'before' and
\* immediately after it for 'after'; a source that came from another group
\* is the only instance its group lost.
C19_MoveInstancePlacement ==
    (Ran("moveInstance") /\ Resolvable(lastOp.source) /\ Resolvable(lastOp.target))
        => LET sourceGroup == GroupOf(lastOp.pre.groups, lastOp.source)
               targetGroup == GroupOf(lastOp.pre.groups, lastOp.target)
               p == GroupOf(groups, lastOp.target)
               insts == groups[p].insts
           IN /\ p # 0
              /\ lastOp.ids[p] = targetGroup
              /\ IndexOf(insts, lastOp.source) =
                     IndexOf(insts, lastOp.target)
                         + (IF lastOp.side = "before" THEN -1 ELSE 1)
              /\ sourceGroup # targetGroup =>
                     \A k \in 1..Len(groups) :
                         lastOp.ids[k] = sourceGroup =>
                             groups[k].insts =
                                 Without(lastOp.pre.groups[sourceGroup].insts, lastOp.source)
              /\ Members(groups) = Members(lastOp.pre.groups)

\* --------------------------------------------------------------------- C20
\* C20: setActiveInstance of an instance that is in no group throws, changes
\* no state and fires nothing.
C20_SetActiveInstanceThrows ==
    (Ran("setActiveInstance") /\ ~Resolvable(lastOp.instance))
        => /\ threw
           /\ Pre = lastOp.pre
           /\ lastOp.ids = Positions(Len(groups))
           /\ events = <<>>

C20_Witness ==
    /\ Ran("setActiveInstance")
    /\ Membership(lastOp.pre.groups) = << <<1>>, <<2>> >>
    /\ lastOp.instance = 3
    /\ lastOp.pre.activeGroupIndex = 1
    /\ threw
    /\ activeGroupIndex = 1
    /\ VisiblePositions = {2}

\* ================================================ UtilityProcess: the machine
UPPre ==
    [process |-> process, processPid |-> processPid, configuration |-> configuration,
     didExit |-> didExit, forks |-> forks, ports |-> ports, listeners |-> listeners,
     kills |-> kills, onExit |-> onExit]

\* one call or one event handler runs from start to end
UPCommit(u, op) ==
    /\ process' = u.process
    /\ processPid' = u.processPid
    /\ configuration' = u.configuration
    /\ didExit' = u.didExit
    /\ forks' = u.forks
    /\ ports' = u.ports
    /\ listeners' = u.listeners
    /\ kills' = u.kills
    /\ onExit' = u.onExit
    /\ upOp' = op @@ [pre |-> UPPre, threw |-> u.threw]
    /\ UNCHANGED <<canUseUtilityProcess, tgVars, ssVars>>

Start ==
    /\ forks < MaxStarts
    /\ \E config \in Configs, window \in WindowStates :
           UPCommit(start(UP, config, window),
                    [name |-> "start", config |-> config, window |-> window])
    /\ UNCHANGED <<spawned, delivered, wait, waits>>

Kill ==
    /\ kills < MaxKills
    /\ UPCommit(kill(UP), [name |-> "kill"])
    /\ UNCHANGED <<spawned, delivered, wait, waits>>

\* waitForExit is called: it returns at once or suspends at its await
WaitForExit ==
    /\ waits < MaxWaits
    /\ wait.status # "waiting"
    /\ waits' = waits + 1
    /\ wait' = IF waitForExit_returnsAtOnce(UP)
               THEN [status |-> "resolved", kills |-> 0, by |-> "return"]
               ELSE [status |-> "waiting", kills |-> 0, by |-> "none"]
    /\ UPCommit(UP, [name |-> "waitForExit"])
    /\ UNCHANGED <<spawned, delivered>>

\* timeout(maxWaitTimeMs) elapses first: the race settles and waitForExit goes on
Timeout ==
    /\ wait.status = "waiting"
    /\ LET u == waitForExit_resume(UP)
       IN /\ UPCommit(u, [name |-> "timeout"])
          /\ wait' = [status |-> "resolved", kills |-> u.kills - kills, by |-> "timeout"]
    /\ UNCHANGED <<spawned, delivered, waits>>

\* Electron emits 'spawn'
Spawn ==
    /\ process # NoProcess
    /\ ~spawned
    /\ spawned' = TRUE
    /\ UPCommit(onSpawn(UP), [name |-> "spawn"])
    /\ UNCHANGED <<delivered, wait, waits>>

\* an exit notification reaches handleDidExit; a waitForExit that is waiting
\* goes on as soon as onExit has fired
Deliver(source, code) ==
    /\ process # NoProcess
    /\ Len(delivered) < MaxDeliveries
    /\ delivered' = Append(delivered, [source |-> source, code |-> code])
    /\ LET u == handleDidExit(UP, code)
           resumes == wait.status = "waiting" /\ Len(u.onExit) > Len(onExit)
           u1 == IF resumes THEN waitForExit_resume(u) ELSE u
       IN /\ UPCommit(u1, [name |-> source, code |-> code])
          /\ wait' = IF resumes
                     THEN [status |-> "resolved", kills |-> u1.kills - kills, by |-> "exit"]
                     ELSE wait
    /\ UNCHANGED <<spawned, waits>>

\* Electron emits 'exit' on the process
ExitEvent == \E code \in ExitCodes : Deliver("exit", code)

\* the app emits 'child-process-gone': for this service name, or for another
\* child, which the listener ignores
ChildProcessGone ==
    \E code \in ExitCodes, matches \in BOOLEAN :
        IF matches
        THEN Deliver("child-process-gone", code)
        ELSE /\ process # NoProcess
             /\ UPCommit(UP, [name |-> "other-child-gone", code |-> code])
             /\ UNCHANGED <<spawned, delivered, wait, waits>>

NextUP ==
    \/ Start
    \/ Kill
    \/ WaitForExit
    \/ Timeout
    \/ Spawn
    \/ ExitEvent
    \/ ChildProcessGone

\* the handle alone; the timer of a waitForExit that is waiting does elapse
InitUP == UPInit /\ TGInit /\ SSInit

SpecUP ==
    /\ InitUP
    /\ [][NextUP]_vars
    /\ WF_vars(Timeout)

\* ------------------------------------------------- reading the last step
UPRan(name) == upOp.name = name

\* the step was the delivery of an exit notification to handleDidExit
UPDelivery == upOp.name \in {"exit", "child-process-gone"}

\* --------------------------------------------------------------------- C21
\* C21: however 'exit' and matching 'child-process-gone' notifications are
\* delivered, onExit fires exactly once, with the exit code of the first
\* delivery and signal 'unknown'; a later delivery changes no state.
C21_ExitFiresOnce ==
    /\ Len(onExit) = (IF delivered = <<>> THEN 0 ELSE 1)
    /\ delivered # <<>> =>
           /\ didExit
           /\ onExit[1].code = delivered[1].code
           /\ onExit[1].signal = "unknown"
    /\ (UPDelivery /\ upOp.pre.didExit) => UPPre = upOp.pre

C21_Witness ==
    /\ Len(delivered) = 3
    /\ delivered[1] = [source |-> "child-process-gone", code |-> 1]
    /\ delivered[2] = [source |-> "exit", code |-> 0]
    /\ Len(onExit) = 1
    /\ onExit[1].code = 1
    /\ UPRan("exit") /\ upOp.pre.didExit

\* --------------------------------------------------------------------- C22
\* C22: a waitForExit that waits always resolves; when the timeout elapses
\* before an exit it has issued exactly one kill request, and when the exit
\* came first, or there was nothing to wait for, none.
C22_WaitForExitResolves ==
    /\ [](wait.status = "resolved" =>
              /\ wait.by = "timeout" => wait.kills = 1
              /\ wait.by \in {"exit", "return"} => wait.kills = 0)
    /\ (wait.status = "waiting") ~> (wait.status = "resolved")

C22_Witness ==
    /\ UPRan("timeout")
    /\ wait = [status |-> "resolved", kills |-> 1, by |-> "timeout"]
    /\ ~didExit
    /\ kills = upOp.pre.kills + 1

\* --------------------------------------------------------------------- C23
\* C23: waitForExit on a handle that has no process or has already exited
\* resolves without waiting, issues no kill request and changes no state;
\* kill() with no process attached issues no kill request.
C23_NothingToWaitFor ==
    /\ (UPRan("waitForExit") /\ (upOp.pre.process = NoProcess \/ upOp.pre.didExit))
           => /\ wait = [status |-> "resolved", kills |-> 0, by |-> "return"]
              /\ UPPre = upOp.pre
              /\ ~upOp.threw
    /\ (UPRan("kill") /\ upOp.pre.process = NoProcess)
           => /\ UPPre = upOp.pre
              /\ ~upOp.threw

C23_Witness ==
    /\ UPRan("waitForExit")
    /\ upOp.pre.process # NoProcess
    /\ upOp.pre.didExit
    /\ wait.by = "return"
    /\ kills = 0

\* --------------------------------------------------------------------- C24
\* C24 as stated: start on a handle without a process, with a response window
\* that is missing, destroyed or has destroyed web contents, throws nothing,
\* forks nothing, posts no port and leaves process and configuration unset.
C24_Original ==
    (UPRan("start") /\ upOp.window # "live" /\ upOp.pre.process = NoProcess)
        => /\ ~upOp.threw
           /\ UPPre = upOp.pre
           /\ process = NoProcess /\ configuration = NoConfig

\* C24 amended: such a start forks nothing, posts no port and leaves process
\* and configuration unset; it throws nothing when canUseUtilityProcess is
\* true, and throws (before looking at the window) when it is false.
C24_StartNeedsLiveWindow ==
    (UPRan("start") /\ upOp.window # "live" /\ upOp.pre.process = NoProcess)
        => /\ upOp.threw <=> ~canUseUtilityProcess
           /\ UPPre = upOp.pre
           /\ process = NoProcess /\ configuration = NoConfig

C24_Witness ==
    /\ UPRan("start")
    /\ upOp.window = "contentsDestroyed"
    /\ canUseUtilityProcess
    /\ ~upOp.threw
    /\ process = NoProcess
    /\ forks = 0 /\ ports = 0

\* --------------------------------------------------------------------- C25
\* C25: start on a handle that has a process attached, running or exited,
\* forks nothing, posts no port, registers no listener and leaves the
\* configuration as it is; no handle ever forks more than one process.
C25_StartOnlyOnce ==
    /\ (UPRan("start") /\ upOp.pre.process # NoProcess) => UPPre = upOp.pre
    /\ forks <= 1 /\ ports <= 1 /\ listeners <= 1

C25_Witness ==
    /\ UPRan("start")
    /\ upOp.window = "live"
    /\ upOp.pre.process # NoProcess
    /\ upOp.pre.didExit
    /\ upOp.config # configuration
    /\ forks = 1

\* --------------------------------------------------------------------- C26
\* not-started, running or exited
Lifecycle(snap) ==
    IF snap.process = NoProcess THEN "not-started"
    ELSE IF snap.didExit THEN "exited" ELSE "running"

Rank(state) == IF state = "not-started" THEN 0 ELSE IF state = "running" THEN 1 ELSE 2

\* C26: no step moves the lifecycle backwards: didExit never returns to
\* false, an exited handle never runs again, and not-started is left only by
\* a start that forks, for running.
C26_LifecycleForward ==
    /\ didExit => process # NoProcess
    /\ upOp.name # "none" =>
           /\ upOp.pre.didExit => didExit
           /\ Rank(Lifecycle(UPPre)) >= Rank(Lifecycle(upOp.pre))
           /\ (Lifecycle(upOp.pre) = "not-started" /\ Lifecycle(UPPre) # "not-started")
                  => /\ UPRan("start")
                     /\ Lifecycle(UPPre) = "running"
                     /\ forks = upOp.pre.forks + 1

C26_Witness ==
    /\ UPRan("child-process-gone")
    /\ Lifecycle(upOp.pre) = "running"
    /\ Lifecycle(UPPre) = "exited"
    /\ kills = 1

\* --------------------------------------------------------------------- C29
\* C29: every event fired on onExit carries a pid, captured from 'spawn'
\* before the exit notification.
C29_ExitCarriesPid ==
    \A k \in 1..Len(onExit) : onExit[k].pid # NoPid

\* --------------------------------------------------------------------- C27
\* C27: whenever a notification fires, groups, activeGroupIndex and
\* activeInstanceIndex already hold the values they have when the operation
\* returns, and activeGroupIndex is a valid index, or -1 with groups empty.
C27_NotificationsAfterMutation ==
    lastOp.name # "idle" =>
        \A k \in 1..Len(lastOp.seen) :
            /\ lastOp.seen[k].groups = lastOp.ids
            /\ lastOp.seen[k].activeGroupIndex = activeGroupIndex
            /\ lastOp.seen[k].activeInstanceIndex = activeInstanceIndex
            /\ IF lastOp.seen[k].groups = <<>>
               THEN lastOp.seen[k].activeGroupIndex = -1
               ELSE /\ 0 <= lastOp.seen[k].activeGroupIndex
                    /\ lastOp.seen[k].activeGroupIndex < Len(lastOp.seen[k].groups)

\* --------------------------------------------------------------------- C28
\* C28: removing a group that is not the active group, and moveGroup of any
\* group, leave the same group object active as before.
C28_ActiveGroupIdentityKept ==
    /\ (RemovedOne /\ ~RemovedWasActive) => ActiveObjectNow = ActiveObjectBefore
    /\ (Ran("moveGroup") /\ ~threw) => ActiveObjectNow = ActiveObjectBefore

\* ====================================== BaseSecretStorageService: the machine
Ops == {"get", "set", "delete"}

\* a call of get, set or delete: queued on the sequencer under its key
Invoke(op, key, value) ==
    /\ Len(calls) < MaxCalls
    /\ calls' = Append(calls, [op |-> op, key |-> key, value |-> value,
                               pc |-> "queued", result |-> Undefined])
    /\ UNCHANGED <<storage, resolved, tgVars, upVars>>

Get == \E key \in Keys : Invoke("get", key, Undefined)

Set == \E key \in Keys, value \in Values : Invoke("set", key, value)

Delete == \E key \in Keys : Invoke("delete", key, Undefined)

\* the sequencer starts the task, which runs up to await this.resolvedStorageService
StartTask ==
    \E i \in 1..Len(calls) :
        /\ MayStart(i)
        /\ calls' = [calls EXCEPT ![i].pc = "awaitStorage"]
        /\ UNCHANGED <<storage, resolved, tgVars, upVars>>

\* initialize() settles: the in-memory storage is there
Initialize ==
    /\ ~resolved
    /\ resolved' = TRUE
    /\ UNCHANGED <<storage, calls, tgVars, upVars>>

\* the task continues after the await and runs to its end
Continue ==
    \E i \in 1..Len(calls) :
        /\ calls[i].pc = "awaitStorage"
        /\ resolved
        /\ storage' = IF calls[i].op = "set" THEN set(storage, calls[i].key, calls[i].value)
                      ELSE IF calls[i].op = "delete" THEN delete(storage, calls[i].key)
                      ELSE storage
        /\ calls' = [calls EXCEPT ![i].pc = "done",
                                  ![i].result = IF calls[i].op = "get"
                                                THEN get(storage, calls[i].key)
                                                ELSE Undefined]
        /\ UNCHANGED <<resolved, tgVars, upVars>>

NextSS ==
    \/ Get
    \/ Set
    \/ Delete
    \/ StartTask
    \/ Initialize
    \/ Continue

InitSS == SSInit /\ TGInit /\ UPInit /\ canUseUtilityProcess

SpecSS == InitSS /\ [][NextSS]_vars

\* --------------------------------------------------------------------- C30
\* the calls before call i that write key
Writes(i, key) ==
    {j \in 1..(i - 1) : calls[j].key = key /\ calls[j].op \in {"set", "delete"}}

\* what the last write to key invoked before call i leaves under it
Written(i, key) ==
    IF Writes(i, key) = {} THEN Undefined
    ELSE LET j == CHOOSE w \in Writes(i, key) : \A v \in Writes(i, key) : v <= w
         IN IF calls[j].op = "set" THEN calls[j].value ELSE Undefined

\* C30: with in-memory storage, calls on one key take effect in the order of
\* their invocation: a get returns the value of the last set invoked before
\* it, undefined after a delete, and once every call on a key has run, the
\* last invoked write determines the stored value.
C30_SequencedPerKey ==
    /\ \A i \in 1..Len(calls) :
           (calls[i].op = "get" /\ calls[i].pc = "done")
               => calls[i].result = Written(i, calls[i].key)
    /\ \A key \in Keys :
           (\A i \in 1..Len(calls) : calls[i].key = key => calls[i].pc = "done")
               => storage[getKey(key)] = Written(Len(calls) + 1, key)
====
